---------------------------- MODULE Spec2Model ----------------------------
(***************************************************************************)
(* failmail: a registry maps exception types to notification entries       *)
(* (registry.py); a notifier looks the entries of a raised exception up,   *)
(* formats each against a context and sends it over SMTP (notifier.py).    *)
(*                                                                         *)
(* A Python string is a sequence of symbols.  A symbol stands for one      *)
(* character, or for a run of characters of one class (the run             *)
(* "error_type" of identifier characters, the run "Error: " of other       *)
(* characters); the template scanner only looks at the class of a symbol.  *)
(***************************************************************************)
EXTENDS Integers, Sequences, FiniteSets, TLC

(***************************************************************************)
(* Python values                                                           *)
(***************************************************************************)
None == "None"

StrV(s) == [py |-> "str", s |-> s, n |-> 0]
IntV(k) == [py |-> "int", s |-> <<>>, n |-> k]

DigitSyms == <<"0", "1", "2", "3", "4", "5", "6", "7", "8", "9">>

RECURSIVE Digits(_)
Digits(k) == IF k < 10 THEN <<DigitSyms[k + 1]>>
             ELSE Digits(k \div 10) \o <<DigitSyms[(k % 10) + 1]>>

\* str(value)
PyStr(v) == IF v.py = "str" THEN v.s ELSE Digits(v.n)

\* isinstance(value, str)
IsStr(v) == v.py = "str"

WhiteSpace == {" ", "\t", "\n"}

\* s.strip(): leading and trailing whitespace removed
RECURSIVE LStrip(_)
LStrip(s) == IF s = <<>> THEN <<>>
             ELSE IF Head(s) \in WhiteSpace THEN LStrip(Tail(s)) ELSE s

RECURSIVE RStrip(_)
RStrip(s) == IF s = <<>> THEN <<>>
             ELSE IF s[Len(s)] \in WhiteSpace THEN RStrip(SubSeq(s, 1, Len(s) - 1))
             ELSE s

Strip(s) == RStrip(LStrip(s))

(***************************************************************************)
(* string.Template.safe_substitute, as RegistryEntry.format uses it        *)
(***************************************************************************)
Delimiter == "$"

\* symbols an identifier may start with: [_a-z], case ignored
IdStart == {"_", "a", "b", "error_type", "error_message", "error_traceback",
            "timestamp", "user", "missing"}

\* symbols an identifier may continue with: [_a-z0-9]
IdChar == IdStart \cup {"0", "1", "2", "3", "4", "5", "6", "7", "8", "9"}

\* the length of the longest run of identifier symbols s starts with
RECURSIVE IdRun(_)
IdRun(s) == IF s = <<>> \/ Head(s) \notin IdChar THEN 0 ELSE 1 + IdRun(Tail(s))

\* the identifier s starts with, <<>> when it starts with none
IdAt(s) == IF s = <<>> \/ Head(s) \notin IdStart THEN <<>>
           ELSE SubSeq(s, 1, IdRun(s))

Drop(s, k) == SubSeq(s, k + 1, Len(s))

\* a key missing from the mapping blanks the placeholder
SubstituteBlank(ctx, name, text) == IF name \in DOMAIN ctx THEN PyStr(ctx[name]) ELSE <<>>

\* str(mapping[name]); a key missing from the mapping leaves the
\* placeholder's text as it is
Substitute(ctx, name, text) == IF name \in DOMAIN ctx THEN PyStr(ctx[name]) ELSE text

\* Template(s).safe_substitute(ctx): one left-to-right scan, the
\* alternatives of the pattern tried in order: $$, $name, ${name}, $
RECURSIVE SafeSubstitute(_, _)
SafeSubstitute(s, ctx) ==
    IF s = <<>> THEN <<>>
    ELSE IF Head(s) # Delimiter THEN <<Head(s)>> \o SafeSubstitute(Tail(s), ctx)
    ELSE LET r == Tail(s) IN
         IF r # <<>> /\ Head(r) = Delimiter
         THEN <<Delimiter>> \o SafeSubstitute(Tail(r), ctx)
         ELSE IF IdAt(r) # <<>>
         THEN LET id == IdAt(r) IN
              Substitute(ctx, id, <<Delimiter>> \o id)
                  \o SafeSubstitute(Drop(r, Len(id)), ctx)
         ELSE IF r # <<>> /\ Head(r) = "{" /\ IdAt(Tail(r)) # <<>>
                 /\ Len(r) >= Len(IdAt(Tail(r))) + 2
                 /\ r[Len(IdAt(Tail(r))) + 2] = "}"
         THEN LET id == IdAt(Tail(r)) IN
              Substitute(ctx, id, <<Delimiter, "{">> \o id \o <<"}">>)
                  \o SafeSubstitute(Drop(r, Len(id) + 2), ctx)
         ELSE <<Delimiter>> \o SafeSubstitute(r, ctx)

(***************************************************************************)
(* RegistryEntry                                                           *)
(***************************************************************************)
BodyTypes == {"plain", "html"}

NoEntry == [recipients |-> <<>>, subject |-> <<>>, body |-> <<>>, body_type |-> "plain"]

\* all(isinstance(r, str) for r in recipients)
AllStr(recipients) == \A i \in 1..Len(recipients) : IsStr(recipients[i])

\* RegistryEntry.__init__: the entry, or the ValueError it raises
RegistryEntryInit(recipients, subject, body, body_type) ==
    IF recipients = <<>> \/ ~AllStr(recipients)
    THEN [raised |-> "ValueError", entry |-> NoEntry]
    ELSE IF ~IsStr(subject) \/ Strip(subject.s) = <<>>
    THEN [raised |-> "ValueError", entry |-> NoEntry]
    ELSE IF ~IsStr(body) \/ Strip(body.s) = <<>>
    THEN [raised |-> "ValueError", entry |-> NoEntry]
    ELSE IF body_type \notin BodyTypes
    THEN [raised |-> "ValueError", entry |-> NoEntry]
    ELSE [raised |-> None,
          entry |-> [recipients |-> [i \in 1..Len(recipients) |-> recipients[i].s],
                     subject |-> subject.s, body |-> body.s, body_type |-> body_type]]

\* RegistryEntry.format
Format(entry, context) ==
    [subject |-> SafeSubstitute(entry.subject, context),
     body |-> SafeSubstitute(entry.body, context)]

(***************************************************************************)
(* ExceptionRegistry                                                       *)
(***************************************************************************)
Types == {"object", "BaseException", "Exception", "LookupError", "KeyError", "ValueError"}

\* exception_type.__base__
Base == [t \in Types |->
            CASE t = "object" -> None
              [] t = "BaseException" -> "object"
              [] t = "Exception" -> "BaseException"
              [] t = "LookupError" -> "Exception"
              [] t = "KeyError" -> "LookupError"
              [] t = "ValueError" -> "Exception"]

EmptyDict == [k \in {} |-> <<>>]

DictSet(d, k, v) == [j \in DOMAIN d \cup {k} |-> IF j = k THEN v ELSE d[j]]

\* defaultdict(list).__getitem__: a missing key is inserted with an empty list
DefaultDictGet(reg, k) ==
    IF k \in DOMAIN reg THEN [value |-> reg[k], registry |-> reg]
    ELSE [value |-> <<>>, registry |-> DictSet(reg, k, <<>>)]

\* ExceptionRegistry.register: the exception raised (None when it returns)
\* and the table it leaves
register(reg, exception_type, recipients, subject, body, body_type) ==
    LET r == RegistryEntryInit(recipients, subject, body, body_type)
    IN  IF r.raised # None THEN [raised |-> r.raised, registry |-> reg]
        ELSE LET g == DefaultDictGet(reg, exception_type)
             IN  [raised |-> None,
                  registry |-> DictSet(g.registry, exception_type, Append(g.value, r.entry))]

\* the while loop of get_entries, from exception_type up the __base__ chain
RECURSIVE Walk(_, _)
Walk(reg, t) ==
    IF t = None THEN [ret |-> <<>>, registry |-> reg]
    ELSE IF t \in DOMAIN reg
    THEN LET g == DefaultDictGet(reg, t) IN [ret |-> g.value, registry |-> g.registry]
    ELSE Walk(reg, Base[t])

\* the lists of the whole chain, merged
RECURSIVE WalkMerged(_, _)
WalkMerged(reg, t) ==
    IF t = None THEN <<>>
    ELSE (IF t \in DOMAIN reg THEN reg[t] ELSE <<>>) \o WalkMerged(reg, Base[t])

GetEntriesMerged(reg, exception_type) ==
    [ret |-> WalkMerged(reg, exception_type), registry |-> reg]

\* the table indexed at every type of the chain, without the membership test
RECURSIVE WalkNoTest(_, _)
WalkNoTest(reg, t) ==
    IF t = None THEN [ret |-> <<>>, registry |-> reg]
    ELSE LET g == DefaultDictGet(reg, t)
         IN  IF g.value # <<>> THEN [ret |-> g.value, registry |-> g.registry]
             ELSE WalkNoTest(g.registry, Base[t])

GetEntriesNoTest(reg, exception_type) == WalkNoTest(reg, exception_type)

\* any registered list when the chain holds none
GetEntriesAny(reg, exception_type) ==
    LET w == Walk(reg, exception_type)
    IN  IF w.ret = <<>> /\ DOMAIN reg # {}
        THEN [ret |-> reg[CHOOSE k \in DOMAIN reg : TRUE], registry |-> reg]
        ELSE w

\* ExceptionRegistry.get_entries: the list returned and the table it leaves
get_entries(reg, exception_type) == Walk(reg, exception_type)

(***************************************************************************)
(* ExceptionNotifier                                                       *)
(***************************************************************************)
SenderEmail == <<"noreply@x.com">>

\* what a call of the smtplib connection can raise: an smtplib.SMTPException,
\* or an OSError that is none (a refused or timed out socket, an SSL error)
SMTPException == "SMTPException"
OSError == "OSError"

ConnectOutcomes == {None, SMTPException, OSError}
StartTlsOutcomes == {None, SMTPException, OSError}
LoginOutcomes == {None, SMTPException}
SendOutcomes == {None, SMTPException}

Outcomes == [connect : ConnectOutcomes, starttls : StartTlsOutcomes,
             login : LoginOutcomes, send : SendOutcomes]

\* the outcomes of the calls one delivery makes: a call that is not made
\* (after an earlier one raised, or that the configuration leaves out) has none
OutcomesFor(enc, cred) ==
    {o \in Outcomes :
        /\ (enc # "tls" \/ o.connect # None) => o.starttls = None
        /\ (cred = None \/ o.connect # None \/ o.starttls # None) => o.login = None
        /\ (o.connect # None \/ o.starttls # None \/ o.login # None) => o.send = None}

\* except smtplib.SMTPException
CaughtNothing(e) == FALSE

Caught(e) == e = SMTPException

Call(op, i, e) == [op |-> op, i |-> i, raised |-> e]

\* ', '.join(recipients)
RECURSIVE Join(_)
Join(recipients) ==
    IF recipients = <<>> THEN <<>>
    ELSE IF Len(recipients) = 1 THEN recipients[1]
    ELSE recipients[1] \o <<", ">> \o Join(Tail(recipients))

\* default_context | (additional_context or {})
MergeDefaultsWin(default_context, additional) ==
    [k \in DOMAIN default_context \cup DOMAIN additional |->
        IF k \in DOMAIN default_context THEN default_context[k] ELSE additional[k]]

Merge(default_context, additional) ==
    [k \in DOMAIN default_context \cup DOMAIN additional |->
        IF k \in DOMAIN additional THEN additional[k] ELSE default_context[k]]

\* _get_connection for entry i under outcome o: the calls made, the exception
\* raised (None when a connection is returned), whether a connection is open
\* when it ends, and the errors logged
GetConnection(enc, i, o) ==
    IF enc = "ssl"
    THEN [calls |-> <<Call("connect", i, o.connect)>>,
          raised |-> o.connect,
          open |-> o.connect = None,
          log |-> IF Caught(o.connect) THEN <<"error">> ELSE <<>>]
    ELSE IF o.connect # None
    THEN [calls |-> <<Call("connect", i, o.connect)>>,
          raised |-> o.connect,
          open |-> FALSE,
          log |-> IF Caught(o.connect) THEN <<"error">> ELSE <<>>]
    ELSE IF enc = "tls"
    THEN [calls |-> <<Call("connect", i, None), Call("starttls", i, o.starttls)>>,
          raised |-> o.starttls,
          open |-> TRUE,
          log |-> IF Caught(o.starttls) THEN <<"error">> ELSE <<>>]
    ELSE [calls |-> <<Call("connect", i, None)>>,
          raised |-> None, open |-> TRUE, log |-> <<>>]

\* the body of the with statement, and the close its exit makes
WithConnection(cred, i, o) ==
    IF cred # None /\ o.login # None
    THEN [calls |-> <<Call("login", i, o.login), Call("close", i, None)>>,
          raised |-> o.login, sends |-> 0, log |-> <<>>]
    ELSE [calls |-> (IF cred # None THEN <<Call("login", i, None)>> ELSE <<>>)
                    \o <<Call("send_message", i, o.send), Call("close", i, None)>>,
          raised |-> o.send, sends |-> 1,
          log |-> IF o.send = None THEN <<"info">> ELSE <<>>]

\* _send_notification for entries[i]: the message built, the calls made,
\* the exception that leaves it (None when it returns), whether it leaves a
\* connection open, and what it logs
SendNotification(enc, cred, entry, context, i, o) ==
    LET f == Format(entry, context)
        message == [From |-> SenderEmail, To |-> Join(entry.recipients),
                    Subject |-> f.subject, body |-> f.body, subtype |-> entry.body_type]
        c == GetConnection(enc, i, o)
        w == WithConnection(cred, i, o)
    IN  IF c.raised # None
        THEN [calls |-> c.calls, sent |-> <<>>, open |-> c.open,
              raised |-> IF Caught(c.raised) THEN None ELSE c.raised,
              log |-> c.log \o (IF Caught(c.raised) THEN <<"error">> ELSE <<>>)]
        ELSE [calls |-> c.calls \o w.calls,
              sent |-> IF w.sends = 1 THEN <<[i |-> i, message |-> message]>> ELSE <<>>,
              open |-> FALSE,
              raised |-> IF w.raised = None \/ Caught(w.raised) THEN None ELSE w.raised,
              log |-> w.log \o (IF w.raised # None /\ Caught(w.raised)
                                THEN <<"error">> ELSE <<>>)]

(***************************************************************************)
(* Inputs                                                                  *)
(***************************************************************************)
MaxRegs == 2

RegTypes == {"Exception", "LookupError", "KeyError"}
ExcTypes == {"Exception", "LookupError", "KeyError", "ValueError"}

Arg(recipients, subject, body, body_type) ==
    [recipients |-> recipients, subject |-> subject, body |-> body, body_type |-> body_type]

A1 == <<StrV(<<"a@x.com">>)>>
S1 == StrV(<<"S">>)
B1 == StrV(<<"B">>)

RegInputs == <<
    Arg(A1, StrV(<<"Error: ", "$", "error_type">>),
        StrV(<<"Msg: ", "$", "error_message">>), "plain"),
    Arg(<<StrV(<<"b@x.com">>), StrV(<<"c@x.com">>)>>,
        StrV(<<"S ", "$", "{", "user", "}">>),
        StrV(<<"B ", "$", "missing", " ", "$", "$">>), "html"),
    Arg(<<StrV(<<>>)>>, S1, B1, "plain"),
    Arg(<<>>, S1, B1, "plain"),
    Arg(<<StrV(<<"a@x.com">>), IntV(7)>>, S1, B1, "plain"),
    Arg(A1, StrV(<<>>), B1, "plain"),
    Arg(A1, StrV(<<" ", "\t">>), B1, "plain"),
    Arg(A1, S1, StrV(<<>>), "plain"),
    Arg(A1, S1, StrV(<<"\n">>), "html"),
    Arg(A1, S1, B1, "markdown") >>

ErrorMessage == <<"boom">>
Traceback == <<"NoneType: None\n">>
Timestamp == <<"2025-01-01 00:00:00">>

\* additional_context: None, or a dict
AddContexts == <<
    [none |-> TRUE, d |-> EmptyDict],
    [none |-> FALSE,
     d |-> [k \in {<<"error_message">>, <<"user">>} |->
               IF k = <<"user">> THEN StrV(<<"bob">>) ELSE IntV(42)]] >>

DefaultContext(exception_type) ==
    [k \in {<<"error_type">>, <<"error_message">>, <<"error_traceback">>, <<"timestamp">>} |->
        CASE k = <<"error_type">> -> StrV(<<exception_type>>)
          [] k = <<"error_message">> -> StrV(ErrorMessage)
          [] k = <<"error_traceback">> -> StrV(Traceback)
          [] k = <<"timestamp">> -> StrV(Timestamp)]

\* additional_context or {}
OrEmpty(a) == IF a.none \/ DOMAIN a.d = {} THEN EmptyDict ELSE a.d

(***************************************************************************)
(* State                                                                   *)
(***************************************************************************)
VARIABLES
    registry,       \* ExceptionRegistry.registry
    credentials,    \* ExceptionNotifier.credentials
    encryption,     \* ExceptionNotifier.encryption
    pc,             \* "idle", "notify" (in the loop), "returned", "raised"
    call,           \* the call in progress or just ended, and its arguments
    raised,         \* the exception that left the call
    entries,        \* notify: the list get_entries returned
    idx,            \* notify: the index of the next entry of the loop
    context,        \* notify: the merged context
    attempts,       \* the indices of the entries handed to _send_notification, in order
    calls,          \* the calls made on smtplib connections, in order
    sent,           \* the messages handed to send_message, in order
    open,           \* the entries whose connection was opened and not closed
    log,            \* the records logged
    history,        \* the register calls that returned, in order
    fmt_entry,      \* format on its own: the entry
    fmt_context,    \* format on its own: the context
    fmt_out         \* format on its own: the pair returned

vars == <<registry, credentials, encryption, pc, call, raised, entries, idx, context,
          attempts, calls, sent, open, log, history, fmt_entry, fmt_context, fmt_out>>

fmtvars == <<fmt_entry, fmt_context, fmt_out>>

NoOutput == [subject |-> <<>>, body |-> <<>>]

NoCall == [op |-> None, type |-> None, arg |-> 0]

NotifierInit ==
    /\ registry = EmptyDict
    /\ credentials \in {None, "user:password"}
    /\ encryption \in {"ssl", "tls", "none"}
    /\ pc = "idle"
    /\ call = NoCall
    /\ raised = None
    /\ entries = <<>>
    /\ idx = 1
    /\ context = EmptyDict
    /\ attempts = <<>>
    /\ calls = <<>>
    /\ sent = <<>>
    /\ open = {}
    /\ log = <<>>
    /\ history = <<>>

Init ==
    /\ NotifierInit
    /\ fmt_entry = NoEntry
    /\ fmt_context = EmptyDict
    /\ fmt_out = NoOutput

\* register_exception(exception_type, recipients, subject, body, body_type)
RegisterException ==
    /\ pc = "idle"
    /\ Len(history) < MaxRegs
    /\ \E t \in RegTypes, k \in 1..Len(RegInputs) :
          LET a == RegInputs[k]
              r == register(registry, t, a.recipients, a.subject, a.body, a.body_type)
          IN  /\ registry' = r.registry
              /\ call' = [op |-> "register", type |-> t, arg |-> k]
              /\ raised' = r.raised
              /\ pc' = IF r.raised = None THEN "returned" ELSE "raised"
              /\ history' = IF r.raised = None
                            THEN Append(history, [type |-> t, entry |-> r.registry[t][Len(r.registry[t])]])
                            ELSE history
    /\ UNCHANGED <<credentials, encryption, entries, idx, context, attempts, calls,
                   sent, open, log, fmtvars>>

\* notify(exception, additional_context), up to the loop
Notify ==
    /\ pc = "idle"
    /\ \E t \in ExcTypes, k \in 1..Len(AddContexts) :
          LET g == get_entries(registry, t)
          IN  /\ registry' = g.registry
              /\ entries' = g.ret
              /\ call' = [op |-> "notify", type |-> t, arg |-> k]
              /\ IF g.ret = <<>>
                 THEN /\ pc' = "returned"
                      /\ context' = EmptyDict
                 ELSE /\ pc' = "notify"
                      /\ context' = Merge(DefaultContext(t), OrEmpty(AddContexts[k]))
    /\ idx' = 1
    /\ raised' = None
    /\ UNCHANGED <<credentials, encryption, attempts, calls, sent, open, log, history,
                   fmtvars>>

\* one turn of the loop of notify: _send_notification(entries[idx], context)
SendEntry ==
    /\ pc = "notify"
    /\ idx <= Len(entries)
    /\ \E o \in OutcomesFor(encryption, credentials) :
          LET r == SendNotification(encryption, credentials, entries[idx], context, idx, o)
          IN  /\ attempts' = Append(attempts, idx)
              /\ calls' = calls \o r.calls
              /\ sent' = sent \o r.sent
              /\ open' = IF r.open THEN open \cup {idx} ELSE open
              /\ log' = log \o r.log
              /\ raised' = r.raised
              /\ pc' = IF r.raised # None THEN "raised"
                       ELSE IF idx = Len(entries) THEN "returned" ELSE "notify"
              /\ idx' = idx + 1
    /\ UNCHANGED <<registry, credentials, encryption, call, entries, context, history,
                   fmtvars>>

\* the caller goes on after the call returned or raised
Caller ==
    /\ pc \in {"returned", "raised"}
    /\ pc' = "idle"
    /\ call' = NoCall
    /\ raised' = None
    /\ entries' = <<>>
    /\ idx' = 1
    /\ context' = EmptyDict
    /\ attempts' = <<>>
    /\ calls' = <<>>
    /\ sent' = <<>>
    /\ open' = {}
    /\ log' = <<>>
    /\ UNCHANGED <<registry, credentials, encryption, history, fmtvars>>

Next == RegisterException \/ Notify \/ SendEntry \/ Caller

Spec == Init /\ [][Next]_vars

(***************************************************************************)
(* RegistryEntry.format on its own: every template over a small alphabet,  *)
(* against a few contexts                                                  *)
(***************************************************************************)
MaxTemplateLen == 4

FmtAlphabet == {"$", "{", "}", "a", "b", "1"}

RECURSIVE SeqsUpTo(_, _)
SeqsUpTo(S, k) ==
    IF k = 0 THEN {<<>>}
    ELSE LET shorter == SeqsUpTo(S, k - 1)
         IN  shorter \cup {Append(q, c) : q \in {r \in shorter : Len(r) = k - 1}, c \in S}

Templates == SeqsUpTo(FmtAlphabet, MaxTemplateLen)

BodyTemplates == {<<"B">>, <<"$", "{", "a", "}", "$", "$", "$", "b", " ", "$", "a", "1">>}

FmtContexts == {
    EmptyDict,
    [k \in {<<"a">>} |-> StrV(<<"x">>)],
    [k \in {<<"a">>, <<"a", "1">>} |->
        IF k = <<"a">> THEN IntV(42) ELSE StrV(<<"$", "b">>)] }

\* the entries the constructor accepts
FmtEntries ==
    {RegistryEntryInit(A1, StrV(t), StrV(b), "plain").entry :
        t \in {u \in Templates : RegistryEntryInit(A1, StrV(u), B1, "plain").raised = None},
        b \in BodyTemplates}

FormatInit ==
    /\ NotifierInit
    /\ credentials = None
    /\ encryption = "ssl"
    /\ fmt_entry \in FmtEntries
    /\ fmt_context \in FmtContexts
    /\ fmt_out = NoOutput

\* entry.format(context)
FormatCall ==
    /\ pc = "idle"
    /\ pc' = "returned"
    /\ call' = [op |-> "format", type |-> None, arg |-> 0]
    /\ fmt_out' = Format(fmt_entry, fmt_context)
    /\ UNCHANGED <<registry, credentials, encryption, raised, entries, idx, context,
                   attempts, calls, sent, open, log, history, fmt_entry, fmt_context>>

FormatNext == FormatCall

FormatSpec == FormatInit /\ [][FormatNext]_vars

(***************************************************************************)
(* Properties                                                              *)
(***************************************************************************)
Range(q) == {q[j] : j \in DOMAIN q}

\* t and the types above it
RECURSIVE Ancestors(_)
Ancestors(t) == IF t = None THEN {} ELSE {t} \cup Ancestors(Base[t])

\* the number of types above t
RECURSIVE Depth(_)
Depth(t) == IF Base[t] = None THEN 0 ELSE 1 + Depth(Base[t])

RegisteredAbove(reg, t) == Ancestors(t) \cap DOMAIN reg

\* the list of the nearest registered type of t's chain, <<>> when there is none
NearestList(reg, t) ==
    IF RegisteredAbove(reg, t) = {} THEN <<>>
    ELSE reg[CHOOSE u \in RegisteredAbove(reg, t) :
                \A v \in RegisteredAbove(reg, t) : Depth(u) >= Depth(v)]

\* C1: in every reachable table and for every type T, get_entries(T) returns
\* the list of the nearest type of T, base(T), ... that is registered (T's own
\* when T is registered, never a merge), and the empty list when none is; no
\* registered list is empty; notify iterates over that list
C1_NearestRegisteredWins ==
    /\ \A t \in Types : get_entries(registry, t).ret = NearestList(registry, t)
    /\ \A t \in DOMAIN registry : registry[t] # <<>>
    /\ call.op = "notify" => entries = NearestList(registry, call.type)

C1_Witness ==
    /\ call.op = "notify"
    /\ call.type = "KeyError"
    /\ "KeyError" \notin DOMAIN registry
    /\ {"LookupError", "Exception"} \subseteq DOMAIN registry
    /\ registry["LookupError"] # registry["Exception"]
    /\ entries = registry["LookupError"]

SendFailed(i) == \E j \in DOMAIN calls : calls[j] = Call("send_message", i, SMTPException)

\* C2: in one notify call, a send_message that raises SMTPException for one
\* entry is followed by the delivery attempt of the next entry; no entry is
\* attempted twice, and a notify that returns attempted every entry once
C2_SendFailureIsolated ==
    call.op = "notify" =>
        /\ \A j, k \in DOMAIN attempts : j # k => attempts[j] # attempts[k]
        /\ \A i \in 1..Len(entries) :
              SendFailed(i) /\ i < Len(entries) =>
                  \/ i + 1 \in Range(attempts)
                  \/ pc = "notify" /\ idx = i + 1
        /\ pc = "returned" => attempts = [i \in 1..Len(entries) |-> i]

C2_Witness ==
    /\ call.op = "notify"
    /\ pc = "returned"
    /\ Len(entries) = 2
    /\ SendFailed(1)
    /\ \E j \in DOMAIN calls : calls[j] = Call("send_message", 2, None)

\* C3: no failure of connect, starttls, login or send_message ever leaves
\* notify: notify does not raise, and every matching entry is processed
C3_NotifyNeverRaises ==
    call.op = "notify" =>
        /\ pc # "raised"
        /\ pc = "returned" => Len(attempts) = Len(entries)

\* C4: every connection whose connect succeeded is closed when the delivery
\* of its entry ends, whatever starttls, login and send_message did
C4_EveryConnectionClosed == open = {}

Blank(v) == IsStr(v) /\ \A i \in DOMAIN v.s : v.s[i] \in WhiteSpace

\* the cases in which the construction of an entry is to fail
MustFail(a) ==
    \/ a.recipients = <<>>
    \/ \E i \in DOMAIN a.recipients : ~IsStr(a.recipients[i])
    \/ \E i \in DOMAIN a.recipients : a.recipients[i] = StrV(<<>>)
    \/ Blank(a.subject)
    \/ Blank(a.body)
    \/ a.body_type \notin {"plain", "html"}

\* C5: register raises ValueError when recipients is empty, holds a
\* non-string or an empty string, when subject or body is empty or
\* whitespace, or when body_type is neither plain nor html
C5_InvalidEntryRaises ==
    call.op = "register" /\ MustFail(RegInputs[call.arg]) =>
        pc = "raised" /\ raised = "ValueError"

\* the cases of MustFail but the empty-string recipient
Rejected(a) ==
    \/ a.recipients = <<>>
    \/ \E i \in DOMAIN a.recipients : ~IsStr(a.recipients[i])
    \/ Blank(a.subject)
    \/ Blank(a.body)
    \/ a.body_type \notin {"plain", "html"}

\* C5 without the empty-string recipient: the cases the constructor rejects
C5_RejectedCases ==
    call.op = "register" /\ Rejected(RegInputs[call.arg]) =>
        pc = "raised" /\ raised = "ValueError"

\* the entries of the register calls for type t that returned, in call order
RECURSIVE EntriesOf(_, _)
EntriesOf(h, t) ==
    IF h = <<>> THEN <<>>
    ELSE (IF Head(h).type = t THEN <<Head(h).entry>> ELSE <<>>) \o EntriesOf(Tail(h), t)

\* the first half of C6: the list of a type holds the entries of its
\* register calls that returned, in call order
C6_ListInCallOrder ==
    \A t \in Types :
        EntriesOf(history, t) = (IF t \in DOMAIN registry THEN registry[t] ELSE <<>>)

\* C6: the list of a type holds the entries of its N register calls that
\* returned, in call order, and a notify that matches the list attempts one
\* delivery per entry, in that order
C6_OrderedAccumulationAndDelivery ==
    /\ C6_ListInCallOrder
    /\ call.op = "notify" /\ pc \in {"returned", "raised"} =>
          attempts = [i \in 1..Len(entries) |-> i]

\* C7: notify on a type with no registered type in its chain makes no call
\* on any connection and returns without raising
C7_UnregisteredNoTransport ==
    call.op = "notify" /\ RegisteredAbove(registry, call.type) = {} =>
        /\ pc = "returned"
        /\ raised = None
        /\ attempts = <<>> /\ calls = <<>> /\ sent = <<>> /\ open = {}

C7_Witness ==
    /\ call.op = "notify"
    /\ call.type = "ValueError"
    /\ RegisteredAbove(registry, "ValueError") = {}
    /\ "KeyError" \in DOMAIN registry
    /\ pc = "returned"
    /\ calls = <<>>

IsIdentifier(id) ==
    /\ id # <<>>
    /\ id[1] \in IdStart
    /\ \A j \in DOMAIN id : id[j] \in IdChar

\* the number of delimiters right before position p of template t
RECURSIVE DelimitersBefore(_, _)
DelimitersBefore(t, p) ==
    IF p = 1 \/ t[p - 1] # Delimiter THEN 0 ELSE 1 + DelimitersBefore(t, p - 1)

\* the key a placeholder of n symbols at p names, braced or not
KeyOf(t, ph) ==
    IF ph.braced THEN SubSeq(t, ph.p + 2, ph.p + ph.n - 2)
    ELSE SubSeq(t, ph.p + 1, ph.p + ph.n - 1)

\* a placeholder of template t: it starts at p, where no delimiter escapes
\* its own, and spans n symbols: $key up to the last identifier symbol, or ${key}
Placeholders(t) ==
    {ph \in [p : DOMAIN t, n : 2..Len(t), braced : BOOLEAN] :
        /\ t[ph.p] = Delimiter
        /\ DelimitersBefore(t, ph.p) % 2 = 0
        /\ ph.p + ph.n - 1 <= Len(t)
        /\ IsIdentifier(KeyOf(t, ph))
        /\ IF ph.braced
           THEN t[ph.p + 1] = "{" /\ t[ph.p + ph.n - 1] = "}"
           ELSE ph.p + ph.n <= Len(t) => t[ph.p + ph.n] \notin IdChar}

\* template t formats to out under ctx, placeholder by placeholder
FormatsTo(t, ctx, out) ==
    /\ (Delimiter \notin Range(t) => out = t)
    /\ \A ph \in Placeholders(t) :
          out = SafeSubstitute(SubSeq(t, 1, ph.p - 1), ctx)
                \o (IF KeyOf(t, ph) \in DOMAIN ctx THEN PyStr(ctx[KeyOf(t, ph)])
                    ELSE SubSeq(t, ph.p, ph.p + ph.n - 1))
                \o SafeSubstitute(Drop(t, ph.p + ph.n - 1), ctx)

\* C8: format returns, in subject and in body, every placeholder whose key
\* is in the context replaced by the string form of its value, and every
\* placeholder whose key is not in the context as its literal text
C8_SafeSubstitution ==
    call.op = "format" =>
        /\ FormatsTo(fmt_entry.subject, fmt_context, fmt_out.subject)
        /\ FormatsTo(fmt_entry.body, fmt_context, fmt_out.body)

C8_Witness ==
    /\ call.op = "format"
    /\ fmt_entry.subject = <<"$", "a", "$", "b">>
    /\ DOMAIN fmt_context = {<<"a">>}
    /\ fmt_out.subject = <<"x", "$", "b">>
    /\ fmt_out.body = <<"x", "$", "$", "b", " ", "$", "a", "1">>

\* C9: notify formats with the default context with additional_context on
\* top: a key of both has the caller's value, a default key the caller does
\* not give keeps its default, a caller's key outside the defaults is added;
\* the subject and body sent carry these values
C9_CallerContextWins ==
    call.op = "notify" /\ entries # <<>> =>
        LET d == DefaultContext(call.type)
            a == IF AddContexts[call.arg].none THEN EmptyDict ELSE AddContexts[call.arg].d
        IN  /\ DOMAIN context = DOMAIN d \cup DOMAIN a
            /\ \A k \in DOMAIN a : context[k] = a[k]
            /\ \A k \in DOMAIN d \ DOMAIN a : context[k] = d[k]
            /\ \A j \in DOMAIN sent :
                  LET e == entries[sent[j].i] IN
                  Len(e.subject) = 3 /\ Len(e.body) = 3 /\ e.subject[2] = Delimiter =>
                      /\ sent[j].message.Subject =
                            <<e.subject[1]>> \o PyStr((IF <<e.subject[3]>> \in DOMAIN a
                                                      THEN a ELSE d)[<<e.subject[3]>>])
                      /\ sent[j].message.body =
                            <<e.body[1]>> \o PyStr((IF <<e.body[3]>> \in DOMAIN a
                                                   THEN a ELSE d)[<<e.body[3]>>])

C9_Witness ==
    /\ call.op = "notify"
    /\ call.type = "KeyError"
    /\ call.arg = 2
    /\ <<"user">> \in DOMAIN context
    /\ context[<<"user">>] = StrV(<<"bob">>)
    /\ \E j \in DOMAIN sent :
          /\ sent[j].message.Subject = <<"Error: ", "KeyError">>
          /\ sent[j].message.body = <<"Msg: ", "4", "2">>

\* C10: the table changes only in a register call that returns, which appends
\* one entry to the list of its type and leaves the rest as it was; a
\* register call that raises, and notify with its lookup, leave the table as
\* it was, with no key added
C10_OnlyRegisterAppends ==
    [][ /\ registry' # registry =>
              /\ call'.op = "register"
              /\ raised' = None
              /\ LET t == call'.type
                     old == IF t \in DOMAIN registry THEN registry[t] ELSE <<>>
                 IN  /\ DOMAIN registry' = DOMAIN registry \cup {t}
                     /\ \A u \in DOMAIN registry \ {t} : registry'[u] = registry[u]
                     /\ Len(registry'[t]) = Len(old) + 1
                     /\ SubSeq(registry'[t], 1, Len(old)) = old
        /\ pc = "idle" /\ call'.op = "register" /\ raised' # None => registry' = registry
        /\ pc = "idle" /\ call'.op = "notify" => registry' = registry
      ]_vars

C10_Witness ==
    /\ call.op = "register"
    /\ pc = "raised"
    /\ call.type = "KeyError"
    /\ DOMAIN registry = {"Exception"}
    /\ get_entries(registry, "KeyError").ret = registry["Exception"]
=============================================================================
